---- MODULE Spec2Model ----
(***************************************************************************)
(* Model of the STEMMA soil sensor driver (src/src/lib.rs, src/src/regs.rs). *)
(*                                                                         *)
(* The driver is synchronous and single threaded.  Its only inputs are the *)
(* answers of the I2C transport.  The transport is modelled as a stub that *)
(* gives one response per register-read cycle (per candidate address for   *)
(* init, per attempt for get_capacitance); `stub` is the script of the     *)
(* responses given in the running call.  A repeated call may be answered   *)
(* from the script of the call before it, which is what a transport that   *)
(* answers deterministically does.  Every bus call and delay call the      *)
(* driver issues is appended to `trace`.                                   *)
(***************************************************************************)
EXTENDS Integers, Sequences, FiniteSets, TLC

(* ---------------------------------------------------------------- regs.rs *)
SEESAW_HW_ID_CODE == 85
SEESAW_STATUS_BASE == 0
SEESAW_TOUCH_BASE == 15
SEESAW_STATUS_HW_ID == 1
SEESAW_STATUS_TEMP == 4
SEESAW_TOUCH_CHANNEL_OFFSET == 16

(* ----------------------------------------------------------------- lib.rs *)
STD_PROCESSING_DELAY_MICROS == 125
SENSOR_START_ADDR == 54
SENSOR_END_ADDR == 57
\* `while retry_counter < 3`
RETRY_LIMIT == 3
\* `self.delay.delay_us(1000)` at the head of every capacitance attempt
CAP_PRE_DELAY_MICROS == 1000
\* settle delay handed to `self.read` by get_capacitance
CAP_SETTLE_DELAY_MICROS == 5000
\* u16::max_value()
U16_MAX == 65535

(* ------------------------------------------------------------ model bounds *)
\* Number of attempts of one get_capacitance call that are explored; the
\* code itself puts no limit on attempts that read the sentinel.
MaxAttempts == 5

(* --------------------------------------------------- transport stub answers *)
\* A response describes one register-read cycle: the step that fails (or
\* "ok"), the rppal error it fails with, and the bytes a successful read
\* delivers.
Fail(step, e) == [step |-> step, err |-> e, data |-> <<>>]
Data(bytes) == [step |-> "ok", err |-> "", data |-> bytes]

\* rppal::i2c::Error kinds that matter to the driver.
I2CErrors == {"Io", "InvalidSlaveAddress"}

\* Answers of one discovery candidate: set_slave_address, write or read
\* fails, or one HW_ID byte is delivered.
HwResponses ==
    {Fail(s, e) : s \in {"set_slave_address", "write", "read"}, e \in I2CErrors}
        \cup {Data(<<SEESAW_HW_ID_CODE>>), Data(<<0>>), Data(<<255>>)}

\* Answers of a pre-set channel probed by init_with_channel.
ChanResponses ==
    {Fail(s, e) : s \in {"write", "read"}, e \in I2CErrors}
        \cup {Data(<<SEESAW_HW_ID_CODE>>), Data(<<0>>), Data(<<255>>)}

\* Answers to a TEMP read: 12.5, -0.5, and three values that need more
\* than 24 significant bits (2^24 + 1, 2^25 + 3, -(2^24 + 3)).
TempResponses ==
    {Fail(s, e) : s \in {"write", "read"}, e \in I2CErrors} \cup
    {Data(<<0, 12, 128, 0>>), Data(<<255, 255, 128, 0>>), Data(<<1, 0, 0, 1>>),
     Data(<<2, 0, 0, 3>>), Data(<<254, 255, 255, 253>>)}

\* Answers to a TOUCH_CHANNEL read: the not-ready sentinel 0xFFFF, 700, 0
\* and the largest reading below the sentinel, 0xFFFE.
CapResponses ==
    {Fail(s, e) : s \in {"write", "read"}, e \in I2CErrors}
        \cup {Data(<<255, 255>>), Data(<<2, 188>>), Data(<<0, 0>>), Data(<<255, 254>>)}

\* Addresses a caller of init_with_channel may have set beforehand.
PresetAddrs == {SENSOR_START_ADDR, 112}

(* ------------------------------------------------------------------ results *)
\* Result<T>: kind is "Ok" or a SoilSensErr variant; err is the source of
\* SoilSensErr::I2C; val/exp carry the payload (a u16, a HW id, or the f32
\* val * 2^exp).  HardwareMismatch(expected, got) keeps got in val and
\* expected in exp.  The address carried by InvalidSlaveAddress is not
\* modelled.
Res(kind, err, val, exp) == [kind |-> kind, err |-> err, val |-> val, exp |-> exp]
NoRes == Res("None", "", 0, 0)
Ok(val) == Res("Ok", "", val, 0)
I2C(e) == Res("I2C", e, 0, 0)

\* One entry of the bus trace: the call, its arguments (for a read, the
\* buffer length), whether it succeeded, the error, the bytes delivered.
Ev(ev, arg, r, data) ==
    [ev |-> ev, arg |-> arg, ok |-> r.kind = "Ok", err |-> r.err, data |-> data]

NoPrev == [set |-> FALSE, result |-> NoRes, trace |-> <<>>]

VARIABLES
    pc,             \* position of the running operation, "idle" between calls
    op,             \* the operation running or last run
    sensor,         \* TRUE once a SoilSensor value has been returned
    addr,           \* slave address the channel is set to (0: never set)
    adr,            \* loop variable of init
    hw_found,       \* local of init
    retry_counter,  \* local of get_capacitance
    buff,           \* read buffer of the running operation
    stub,           \* responses of the transport in the running call
    trace,          \* bus and delay calls of the running/last operation
    result,         \* what the last operation returned
    prev,           \* outcome of the preceding call, kept when the same
                    \* operation is called again and answered as before
    errBefore       \* a get_capacitance call on this Sensor has returned
                    \* MoistureReadErr

vars == <<pc, op, sensor, addr, adr, hw_found, retry_counter, buff, stub,
          trace, result, prev, errBefore>>

(* ------------------------------------------------------------ pure helpers *)
\* Number of register-selector writes issued, i.e. register reads started.
Attempts(tr) == Cardinality({i \in 1..Len(tr) : tr[i].ev = "write"})
BusReads(tr) == Cardinality({i \in 1..Len(tr) : tr[i].ev = "read"})

\* u16::from_be_bytes
U16FromLeBytes(b) == b[2] * 256 + b[1]
U16FromBeBytes(b) == b[1] * 256 + b[2]

\* i32::from_be_bytes
I32FromBeBytes(b) ==
    (IF b[1] >= 128 THEN b[1] - 256 ELSE b[1]) * 16777216
        + b[2] * 65536 + b[3] * 256 + b[4]

RECURSIVE Pow2(_)
Pow2(n) == IF n = 0 THEN 1 ELSE 2 * Pow2(n - 1)

RECURSIVE BitLen(_)
BitLen(a) == IF a = 0 THEN 0 ELSE 1 + BitLen(a \div 2)

F32FromNatTruncated(a) ==
    IF a < 16777216 THEN [m |-> a, e |-> 0]
    ELSE [m |-> a \div Pow2(BitLen(a) - 24), e |-> BitLen(a) - 24]
\* `n as f32` for n >= 0: round to nearest, ties to even, 24 significant
\* bits.  The value is m * 2^e.
F32FromNat(a) ==
    IF a < 16777216 THEN [m |-> a, e |-> 0]
    ELSE LET sh == BitLen(a) - 24
             q == a \div Pow2(sh)
             r == a % Pow2(sh)
             half == Pow2(sh - 1)
             up == r > half \/ (r = half /\ q % 2 = 1)
             m == IF up THEN q + 1 ELSE q
         IN IF m = 16777216 THEN [m |-> 8388608, e |-> sh + 1]
            ELSE [m |-> m, e |-> sh]

\* `i32 as f32`
F32FromI32(n) ==
    IF n = -2147483647 - 1 THEN [m |-> -8388608, e |-> 8]
    ELSE IF n < 0 THEN [m |-> -F32FromNat(-n).m, e |-> F32FromNat(-n).e]
    ELSE F32FromNat(n)

\* (1.0 / (1u32 << 16) as f32) * tmp_val: an exact scaling by 2^-16.
TempCelsius(b) ==
    LET f == F32FromI32(I32FromBeBytes(b))
    IN Res("Ok", "", f.m, f.e - 16)

(* ---------------------------------------------------------------- discovery *)
\* init::channel_init applied to the outcome r of try_read_chan.
channel_init_any_id(r) ==
    IF r.kind = "Ok" THEN Ok(0)
    ELSE IF r.kind = "I2C" /\ r.err = "InvalidSlaveAddress"
         THEN Res("InvalidSlaveAddress", "", 0, 0)
    ELSE r
channel_init_swapped_ids(r) ==
    IF r.kind = "Ok" THEN
        IF r.val # SEESAW_HW_ID_CODE
        THEN Res("HardwareMismatch", "", SEESAW_HW_ID_CODE, r.val)
        ELSE Ok(0)
    ELSE IF r.kind = "I2C" /\ r.err = "InvalidSlaveAddress"
         THEN Res("InvalidSlaveAddress", "", 0, 0)
    ELSE r
channel_init(r) ==
    IF r.kind = "Ok" THEN
        IF r.val # SEESAW_HW_ID_CODE
        THEN Res("HardwareMismatch", "", r.val, SEESAW_HW_ID_CODE)
        ELSE Ok(0)
    ELSE IF r.kind = "I2C" /\ r.err = "InvalidSlaveAddress"
         THEN Res("InvalidSlaveAddress", "", 0, 0)
    ELSE r

\* The arm of init's match that takes c, the outcome of channel_init.
InitArmSkipAll(c) == IF c.kind = "Ok" THEN "break" ELSE "continue"
InitArmNoSkip(c) == IF c.kind = "Ok" THEN "break" ELSE "return"
InitArmReturnsMismatch(c) ==
    IF c.kind = "Ok" THEN "break"
    ELSE IF c.kind = "InvalidSlaveAddress" THEN "continue"
    ELSE "return"
InitArm(c) ==
    IF c.kind = "Ok" THEN "break"
    ELSE IF c.kind \in {"HardwareMismatch", "InvalidSlaveAddress"} THEN "continue"
    ELSE "return"

\* What init returns once its loop is left.
AfterLoop(found) == IF ~found THEN Res("HwNotFound", "", 0, 0) ELSE Ok(0)

\* Index, in the script, of the register-read cycle that is running or
\* about to start: the candidate for init, the attempt for get_capacitance.
Idx ==
    IF op = "init" THEN adr - SENSOR_START_ADDR + 1
    ELSE IF op = "get_capacitance" /\ pc = "reg_write" THEN Attempts(trace) + 1
    ELSE IF op = "get_capacitance" THEN Attempts(trace)
    ELSE 1

\* What the transport may answer to the cycle that starts: the answer of
\* the script when it has one, any answer otherwise.
Responses ==
    IF op = "init" THEN HwResponses
    ELSE IF op = "init_with_channel" THEN ChanResponses
    ELSE IF op = "get_temp" THEN TempResponses
    ELSE CapResponses
Answers == IF Idx <= Len(stub) THEN {stub[Idx]} ELSE Responses
Answered(r) == IF Idx <= Len(stub) THEN stub ELSE Append(stub, r)

\* The answer to the running cycle, once it has started.
Cur == stub[Idx]

\* SoilSensor::init up to the loop: i2c::I2c::new()? and the locals.
\* A constructor is called once in a behaviour: calls share no state.
CallInit ==
    /\ pc = "idle" /\ op = "none"
    /\ \E newErr \in {"", "Io"} :
        IF newErr # ""
        THEN /\ result' = I2C(newErr)
             /\ pc' = "idle"
             /\ UNCHANGED <<addr, adr, hw_found>>
        ELSE /\ result' = NoRes
             /\ pc' = "set_addr"
             /\ addr' = 0
             /\ adr' = SENSOR_START_ADDR
             /\ hw_found' = FALSE
    /\ op' = "init"
    /\ stub' = <<>>
    /\ trace' = <<>>
    /\ prev' = NoPrev
    /\ UNCHANGED <<sensor, retry_counter, buff, errBefore>>

\* channel.set_slave_address(adr)?
InitSetAddr ==
    /\ pc = "set_addr" /\ op = "init"
    /\ \E r \in Answers :
        /\ stub' = Answered(r)
        /\ IF r.step = "set_slave_address"
           THEN /\ trace' = Append(trace, Ev("set_slave_address", <<adr>>, I2C(r.err), <<>>))
                /\ result' = I2C(r.err)
                /\ pc' = "idle"
                /\ addr' = addr
           ELSE /\ trace' = Append(trace, Ev("set_slave_address", <<adr>>, Ok(0), <<>>))
                /\ addr' = adr
                /\ pc' = "probe_write"
                /\ result' = result
    /\ UNCHANGED <<op, sensor, adr, hw_found, retry_counter, buff, prev, errBefore>>

\* SoilSensor::init_with_channel: the channel arrives already addressed.
CallInitWithChannel ==
    /\ pc = "idle" /\ op = "none"
    /\ \E a \in PresetAddrs : addr' = a
    /\ op' = "init_with_channel"
    /\ stub' = <<>>
    /\ trace' = <<>>
    /\ prev' = NoPrev
    /\ result' = NoRes
    /\ pc' = "probe_write"
    /\ UNCHANGED <<sensor, adr, hw_found, retry_counter, buff, errBefore>>

\* The caller of channel_init receives c; tr is the trace of the probe.
ProbeDone(r, tr) ==
    LET c == channel_init(r) IN
    /\ trace' = tr
    /\ IF op = "init" THEN
          CASE InitArm(c) = "break" ->
                  /\ hw_found' = TRUE
                  /\ result' = AfterLoop(TRUE)
                  /\ sensor' = (AfterLoop(TRUE).kind = "Ok")
                  /\ pc' = "idle"
                  /\ adr' = adr
            [] InitArm(c) = "continue" /\ adr < SENSOR_END_ADDR ->
                  /\ adr' = adr + 1
                  /\ pc' = "set_addr"
                  /\ UNCHANGED <<hw_found, result, sensor>>
            [] InitArm(c) = "continue" /\ adr >= SENSOR_END_ADDR ->
                  /\ result' = AfterLoop(hw_found)
                  /\ sensor' = (AfterLoop(hw_found).kind = "Ok")
                  /\ pc' = "idle"
                  /\ UNCHANGED <<hw_found, adr>>
            [] OTHER ->
                  /\ result' = c
                  /\ pc' = "idle"
                  /\ UNCHANGED <<hw_found, adr, sensor>>
       ELSE /\ result' = c
            /\ sensor' = (c.kind = "Ok")
            /\ pc' = "idle"
            /\ UNCHANGED <<hw_found, adr>>
    /\ UNCHANGED <<op, addr, retry_counter, buff, prev, errBefore>>

\* init::try_read_chan: chan.write(&[reg_high, reg_low])? and the delay.
TryReadChanWrite ==
    /\ pc = "probe_write"
    /\ \E r \in Answers :
        LET sel == <<SEESAW_STATUS_BASE, SEESAW_STATUS_HW_ID>> IN
        /\ stub' = Answered(r)
        /\ IF r.step = "write"
           THEN ProbeDone(I2C(r.err), Append(trace, Ev("write", sel, I2C(r.err), <<>>)))
           ELSE /\ trace' = trace \o <<Ev("write", sel, Ok(0), <<>>),
                                       Ev("delay_us", <<STD_PROCESSING_DELAY_MICROS>>, Ok(0), <<>>)>>
                /\ pc' = "probe_read"
                /\ UNCHANGED <<op, sensor, addr, adr, hw_found, retry_counter, buff,
                               result, prev, errBefore>>

\* init::try_read_chan: chan.read(&mut buffer)? and Ok(buffer[0]).
TryReadChanRead ==
    /\ pc = "probe_read"
    /\ stub' = stub
    /\ IF Cur.step = "read"
       THEN ProbeDone(I2C(Cur.err), Append(trace, Ev("read", <<1>>, I2C(Cur.err), <<>>)))
       ELSE ProbeDone(Ok(Cur.data[1]), Append(trace, Ev("read", <<1>>, Ok(0), Cur.data)))

(* ------------------------------------------------------------------ readings *)
\* Register selector, settle delay and buffer length of the running reader.
SelectorWithData ==
    IF op = "get_temp" THEN <<SEESAW_STATUS_BASE, SEESAW_STATUS_TEMP, 0>>
    ELSE <<SEESAW_TOUCH_BASE, SEESAW_TOUCH_CHANNEL_OFFSET, 0>>
Selector ==
    IF op = "get_temp" THEN <<SEESAW_STATUS_BASE, SEESAW_STATUS_TEMP>>
    ELSE <<SEESAW_TOUCH_BASE, SEESAW_TOUCH_CHANNEL_OFFSET>>
SettleDelayStd == STD_PROCESSING_DELAY_MICROS
SettleDelay ==
    IF op = "get_temp" THEN STD_PROCESSING_DELAY_MICROS ELSE CAP_SETTLE_DELAY_MICROS

\* get_temp after self.read(..)? returned r with the buffer holding b.
get_temp_masked(r, b) ==
    IF r.kind # "Ok" THEN Res("MoistureReadErr", "", 0, 0) ELSE TempCelsius(b)
get_temp_result(r, b) == IF r.kind # "Ok" THEN r ELSE TempCelsius(b)

\* The locals get_capacitance starts with; rc is what a previous call left.
get_capacitance_stale(rc) == [retry_counter |-> rc, buff |-> <<0, 0>>]
get_capacitance_locals(rc) == [retry_counter |-> 0, buff |-> <<0, 0>>]

\* The body of get_capacitance's loop after self.read returned r with the
\* buffer holding b: the next position, the counter and the value returned.
cap_body_decodes_on_error(r, b, rc) ==
    IF U16FromBeBytes(b) < U16_MAX /\ (r.kind = "Ok" \/ rc = 0)
    THEN [pc |-> "idle", retry_counter |-> rc, result |-> Ok(U16FromBeBytes(b))]
    ELSE IF r.kind # "Ok"
         THEN [pc |-> "cap_loop", retry_counter |-> rc + 1, result |-> NoRes]
    ELSE [pc |-> "cap_loop", retry_counter |-> rc, result |-> NoRes]
cap_body_counts_sentinel(r, b, rc) ==
    IF r.kind # "Ok" THEN [pc |-> "cap_loop", retry_counter |-> rc + 1, result |-> NoRes]
    ELSE IF U16FromBeBytes(b) < U16_MAX
         THEN [pc |-> "idle", retry_counter |-> rc, result |-> Ok(U16FromBeBytes(b))]
    ELSE [pc |-> "cap_loop", retry_counter |-> rc + 1, result |-> NoRes]
cap_body_no_count(r, b, rc) ==
    IF r.kind # "Ok" THEN [pc |-> "cap_loop", retry_counter |-> rc, result |-> NoRes]
    ELSE IF U16FromBeBytes(b) < U16_MAX
         THEN [pc |-> "idle", retry_counter |-> rc, result |-> Ok(U16FromBeBytes(b))]
    ELSE [pc |-> "cap_loop", retry_counter |-> rc, result |-> NoRes]
cap_body_little_endian(r, b, rc) ==
    IF r.kind # "Ok" THEN [pc |-> "cap_loop", retry_counter |-> rc + 1, result |-> NoRes]
    ELSE IF U16FromLeBytes(b) < U16_MAX
         THEN [pc |-> "idle", retry_counter |-> rc, result |-> Ok(U16FromLeBytes(b))]
    ELSE [pc |-> "cap_loop", retry_counter |-> rc, result |-> NoRes]
cap_body(r, b, rc) ==
    IF r.kind # "Ok" THEN [pc |-> "cap_loop", retry_counter |-> rc + 1, result |-> NoRes]
    ELSE IF U16FromBeBytes(b) < U16_MAX
         THEN [pc |-> "idle", retry_counter |-> rc, result |-> Ok(U16FromBeBytes(b))]
    ELSE [pc |-> "cap_loop", retry_counter |-> rc, result |-> NoRes]

\* A call starts on a fresh script, or, when it repeats the operation that
\* just returned, on a transport that answers as it did in that call; the
\* outcome of that call is then kept for comparison.
Programmed(o) ==
    \/ stub' = <<>> /\ prev' = NoPrev
    \/ /\ op = o
       /\ stub' = stub
       /\ prev' = [set |-> TRUE, result |-> result, trace |-> trace]

\* SoilSensor::get_temp up to self.read.
CallGetTemp ==
    /\ pc = "idle" /\ sensor
    /\ Programmed("get_temp")
    /\ op' = "get_temp"
    /\ buff' = <<0, 0, 0, 0>>
    /\ trace' = <<>>
    /\ result' = NoRes
    /\ pc' = "reg_write"
    /\ UNCHANGED <<sensor, addr, adr, hw_found, retry_counter, errBefore>>

\* SoilSensor::get_capacitance up to its loop.
CallGetCapacitance ==
    /\ pc = "idle" /\ sensor
    /\ Programmed("get_capacitance")
    /\ op' = "get_capacitance"
    /\ buff' = get_capacitance_locals(retry_counter).buff
    /\ retry_counter' = get_capacitance_locals(retry_counter).retry_counter
    /\ trace' = <<>>
    /\ result' = NoRes
    /\ pc' = "cap_loop"
    /\ UNCHANGED <<sensor, addr, adr, hw_found, errBefore>>

CapLoopDelaysOnce ==
    /\ pc = "cap_loop"
    /\ IF retry_counter < RETRY_LIMIT
       THEN /\ Attempts(trace) < MaxAttempts
            /\ trace' = IF trace = <<>>
                        THEN <<Ev("delay_us", <<CAP_PRE_DELAY_MICROS>>, Ok(0), <<>>)>>
                        ELSE trace
            /\ pc' = "reg_write"
            /\ UNCHANGED <<result, errBefore>>
       ELSE /\ result' = Res("MoistureReadErr", "", 0, 0)
            /\ errBefore' = TRUE
            /\ pc' = "idle"
            /\ trace' = trace
    /\ UNCHANGED <<op, sensor, addr, adr, hw_found, retry_counter, buff, stub, prev>>
\* The head of get_capacitance's loop: the condition, then delay_us(1000),
\* or the Err(MoistureReadErr) after the loop.
CapLoop ==
    /\ pc = "cap_loop"
    /\ IF retry_counter < RETRY_LIMIT
       THEN /\ Attempts(trace) < MaxAttempts
            /\ trace' = Append(trace, Ev("delay_us", <<CAP_PRE_DELAY_MICROS>>, Ok(0), <<>>))
            /\ pc' = "reg_write"
            /\ UNCHANGED <<result, errBefore>>
       ELSE /\ result' = Res("MoistureReadErr", "", 0, 0)
            /\ errBefore' = TRUE
            /\ pc' = "idle"
            /\ trace' = trace
    /\ UNCHANGED <<op, sensor, addr, adr, hw_found, retry_counter, buff, stub, prev>>

\* The caller of SoilSensor::read receives r; tr is the trace, b the buffer.
ReadDone(r, tr, b) ==
    /\ trace' = tr
    /\ buff' = b
    /\ IF op = "get_temp"
       THEN /\ result' = get_temp_result(r, b)
            /\ pc' = "idle"
            /\ retry_counter' = retry_counter
       ELSE /\ result' = cap_body(r, b, retry_counter).result
            /\ pc' = cap_body(r, b, retry_counter).pc
            /\ retry_counter' = cap_body(r, b, retry_counter).retry_counter
    /\ UNCHANGED <<op, sensor, addr, adr, hw_found, prev, errBefore>>

ReadWriteDelaysFirst ==
    /\ pc = "reg_write"
    /\ \E r \in Answers :
        /\ stub' = Answered(r)
        /\ IF r.step = "write"
           THEN ReadDone(I2C(r.err),
                         trace \o <<Ev("write", Selector, I2C(r.err), <<>>),
                                    Ev("delay_us", <<SettleDelay>>, Ok(0), <<>>)>>,
                         buff)
           ELSE /\ trace' = trace \o <<Ev("write", Selector, Ok(0), <<>>),
                                       Ev("delay_us", <<SettleDelay>>, Ok(0), <<>>)>>
                /\ pc' = "reg_read"
                /\ UNCHANGED <<op, sensor, addr, adr, hw_found, retry_counter, buff,
                               result, prev, errBefore>>
\* SoilSensor::read: self.channel.write(&[reg_low, reg_high])? and the delay.
ReadWrite ==
    /\ pc = "reg_write"
    /\ \E r \in Answers :
        /\ stub' = Answered(r)
        /\ IF r.step = "write"
           THEN ReadDone(I2C(r.err), Append(trace, Ev("write", Selector, I2C(r.err), <<>>)), buff)
           ELSE /\ trace' = trace \o <<Ev("write", Selector, Ok(0), <<>>),
                                       Ev("delay_us", <<SettleDelay>>, Ok(0), <<>>)>>
                /\ pc' = "reg_read"
                /\ UNCHANGED <<op, sensor, addr, adr, hw_found, retry_counter, buff,
                               result, prev, errBefore>>

\* SoilSensor::read: self.channel.read(buff)? and Ok(()).
ReadRead ==
    /\ pc = "reg_read"
    /\ stub' = stub
    /\ IF Cur.step = "read"
       THEN ReadDone(I2C(Cur.err), Append(trace, Ev("read", <<Len(buff)>>, I2C(Cur.err), <<>>)), buff)
       ELSE ReadDone(Ok(0), Append(trace, Ev("read", <<Len(buff)>>, Ok(0), Cur.data)), Cur.data)

(* ------------------------------------------------------------ specification *)
Init ==
    /\ pc = "idle"
    /\ op = "none"
    /\ sensor = FALSE
    /\ addr = 0
    /\ adr = SENSOR_START_ADDR
    /\ hw_found = FALSE
    /\ retry_counter = 0
    /\ buff = <<>>
    /\ stub = <<>>
    /\ trace = <<>>
    /\ result = NoRes
    /\ prev = NoPrev
    /\ errBefore = FALSE

Next ==
    \/ CallInit
    \/ InitSetAddr
    \/ CallInitWithChannel
    \/ TryReadChanWrite
    \/ TryReadChanRead
    \/ CallGetTemp
    \/ CallGetCapacitance
    \/ CapLoop
    \/ ReadWrite
    \/ ReadRead

Spec == Init /\ [][Next]_vars

TypeOK ==
    /\ pc \in {"idle", "set_addr", "probe_write", "probe_read", "cap_loop",
               "reg_write", "reg_read"}
    /\ op \in {"none", "init", "init_with_channel", "get_temp", "get_capacitance"}
    /\ sensor \in BOOLEAN
    /\ retry_counter \in 0..RETRY_LIMIT

(* ------------------------------------------------------ reading the trace *)
\* Bus transactions (write or read) of a trace that failed.
FailedAt(tr) == {i \in 1..Len(tr) : tr[i].ev \in {"write", "read"} /\ ~tr[i].ok}
SetAddrs(tr) == SelectSeq(tr, LAMBDA x : x.ev = "set_slave_address")
Sentinel == Data(<<255, 255>>)
Reading700 == Data(<<2, 188>>)
Match == Data(<<SEESAW_HW_ID_CODE>>)
\* A candidate that answers a wrong identity byte or whose probe fails with
\* the transport's invalid-slave-address error.
NoMatch(r) ==
    \/ r.step = "ok" /\ r.data # <<SEESAW_HW_ID_CODE>>
    \/ r.step \in {"write", "read"} /\ r.err = "InvalidSlaveAddress"

(* ------------------------------------------------------------------ claims *)

\* C1: every get_capacitance call ends after at most 3 attempts, i.e. at
\* most 3 register reads of TOUCH_CHANNEL, whatever the transport answers.
\* The code counts only failed reads, so sentinel reads go on without limit.
C1_AtMostThreeAttempts ==
    op = "get_capacitance" => Attempts(trace) <= 3 /\ BusReads(trace) <= 3

\* C2: when every successful TOUCH_CHANNEL read of a get_capacitance call
\* delivers the sentinel 0xFFFF, the call fails with MoistureReadErr after
\* exactly 3 queries of the transport and no more.
C2_AllSentinelFailsAfterThree ==
    (/\ op = "get_capacitance"
     /\ \A i \in 1..Len(trace) :
            trace[i].ev = "read" /\ trace[i].ok => trace[i].data = <<255, 255>>)
    => /\ Attempts(trace) <= 3
       /\ pc = "idle" => result.kind = "MoistureReadErr" /\ Attempts(trace) = 3

C4_SetAddrFailureSkips ==
    (op = "init" /\ pc = "idle") =>
        \A i \in 1..Len(trace) :
            (/\ trace[i].ev = "set_slave_address" /\ ~trace[i].ok
             /\ trace[i].arg[1] < SENSOR_END_ADDR)
            => \E j \in (i + 1)..Len(trace) :
                   /\ trace[j].ev = "set_slave_address"
                   /\ trace[j].arg[1] = trace[i].arg[1] + 1

\* C5: init binds a Sensor only when a probe read 0x55; the channel is then
\* addressed to the lowest candidate answering 0x55, the candidates below it
\* were addressed and probed once each in ascending order, and none above it
\* was touched.  With 0x36 answering 0x55 there is exactly one probe.
C5_FirstMatchWins ==
    (op = "init" /\ sensor) =>
        LET k == addr - SENSOR_START_ADDR + 1 IN
        /\ pc = "idle" /\ result.kind = "Ok" /\ hw_found
        /\ addr \in SENSOR_START_ADDR..SENSOR_END_ADDR
        /\ trace[Len(trace)].ev = "read" /\ trace[Len(trace)].ok
        /\ trace[Len(trace)].data = <<85>>
        /\ stub[k] = Match
        /\ \A j \in 1..(k - 1) : stub[j] # Match
        /\ SetAddrs(trace) =
               [j \in 1..k |-> Ev("set_slave_address", <<53 + j>>, Ok(0), <<>>)]
        /\ Attempts(trace) = k /\ BusReads(trace) <= k
        /\ stub[1] = Match => Attempts(trace) = 1 /\ addr = 54

\* C5 witness: 0x38 is bound after 0x36 and 0x37 were skipped.
C5_Witness ==
    /\ op = "init" /\ sensor /\ addr = 56
    /\ Attempts(trace) = 3

\* C6: when every candidate answers a byte other than 0x55 or fails its
\* probe with the invalid-slave-address error, init returns HwNotFound after
\* addressing and probing 0x36, 0x37, 0x38, 0x39 once each, in this order.
C6_ExhaustedScan ==
    (/\ op = "init" /\ pc = "idle" /\ trace # <<>>
     /\ \A c \in 1..Len(stub) : NoMatch(stub[c]))
    => /\ result.kind = "HwNotFound"
       /\ ~sensor
       /\ SetAddrs(trace) =
              [j \in 1..4 |-> Ev("set_slave_address", <<53 + j>>, Ok(0), <<>>)]
       /\ Attempts(trace) = 4
       /\ \A i \in 1..Len(trace) :
              trace[i].ev = "set_slave_address" =>
                  i < Len(trace) /\ trace[i + 1].ev = "write"

\* C6 witness: a scan over mismatching and address-rejecting candidates has
\* ended in HwNotFound.
C6_Witness ==
    /\ op = "init" /\ pc = "idle" /\ result.kind = "HwNotFound"
    /\ stub[1] = Data(<<0>>)
    /\ stub[2] = Fail("write", "InvalidSlaveAddress")
    /\ stub[3] = Fail("read", "InvalidSlaveAddress")
    /\ Len(SetAddrs(trace)) = 4

\* C7: a get_capacitance call whose bus transactions all fail makes exactly
\* 3 attempts and then returns MoistureReadErr; get_capacitance never
\* returns the transport error.
C7_AllErrorsThreeAttempts ==
    op = "get_capacitance" =>
        /\ result.kind # "I2C"
        /\ (\A i \in 1..Len(trace) : trace[i].ev \in {"write", "read"} => ~trace[i].ok)
           => /\ Attempts(trace) <= 3
              /\ pc = "idle" => result.kind = "MoistureReadErr" /\ Attempts(trace) = 3

\* C7 witness: three failed selector writes, then MoistureReadErr.
C7_Witness ==
    /\ op = "get_capacitance" /\ pc = "idle"
    /\ result.kind = "MoistureReadErr"
    /\ Cardinality(FailedAt(trace)) = 3 /\ BusReads(trace) = 0

\* C8: get_temp issues exactly one selector write and at most one bus read;
\* a failure of either ends the call's bus traffic and is returned as the
\* I2C error.
C8_TempNoRetry ==
    op = "get_temp" =>
        /\ Attempts(trace) <= 1 /\ BusReads(trace) <= 1
        /\ pc = "idle" =>
              /\ Attempts(trace) = 1
              /\ \A i \in FailedAt(trace) :
                    i = Len(trace) /\ result = I2C(trace[i].err)
              /\ FailedAt(trace) = {} => result.kind = "Ok"

\* C8 witness: the bus read of get_temp failed and the call returned.
C8_Witness ==
    /\ op = "get_temp" /\ pc = "idle"
    /\ result.kind = "I2C"
    /\ trace[Len(trace)].ev = "read" /\ ~trace[Len(trace)].ok

\* C9: when attempts 1..k-1 read the sentinel and attempt k (k in 1..3)
\* reads the bytes of a value v < 0xFFFF, get_capacitance returns Ok(v)
\* after exactly k queries; the bytes 0x02 0xBC give 700.
C9_SentinelThenValue ==
    \A k \in 1..3 :
        (/\ op = "get_capacitance" /\ pc = "idle" /\ Len(stub) >= k
         /\ \A j \in 1..(k - 1) : stub[j] = Sentinel
         /\ stub[k].step = "ok" /\ stub[k] # Sentinel)
        => /\ result = Ok(stub[k].data[1] * 256 + stub[k].data[2])
           /\ result.val < 65535
           /\ stub[k] = Reading700 => result.val = 700
           /\ Attempts(trace) = k /\ BusReads(trace) = k

\* C9 witness: sentinel, sentinel, 700.
C9_Witness ==
    /\ op = "get_capacitance" /\ pc = "idle"
    /\ stub = <<Sentinel, Sentinel, Reading700>>
    /\ result = Ok(700) /\ BusReads(trace) = 3

\* C10: get_temp and get_capacitance keep nothing between calls: every call
\* starts with a zeroed buffer and counter, a call repeated on a transport
\* that answers as before returns the same result with the same bus and
\* delay trace, and after an earlier MoistureReadErr a call still has its 3
\* attempts (two failures, then 700, gives Ok(700)).
C10_NoStateBetweenCalls ==
    /\ (pc = "cap_loop" /\ trace = <<>>) => retry_counter = 0 /\ buff = <<0, 0>>
    /\ (pc = "idle" /\ op \in {"get_temp", "get_capacitance"} /\ prev.set)
       => result = prev.result /\ trace = prev.trace
    /\ (/\ pc = "idle" /\ op = "get_capacitance" /\ Len(stub) >= 3
        /\ stub[1].step # "ok" /\ stub[2].step # "ok" /\ stub[3] = Reading700)
       => result = Ok(700) /\ Attempts(trace) = 3

\* C10 witness: after an earlier MoistureReadErr, a call that succeeded on
\* its third attempt has been repeated with the same outcome.
C10_Witness ==
    /\ pc = "idle" /\ op = "get_capacitance" /\ errBefore /\ prev.set
    /\ result = Ok(700) /\ Attempts(trace) = 3
    /\ Cardinality(FailedAt(trace)) = 2

\* C11 as a state predicate: init_with_channel issues no set_slave_address,
\* one selector write and at most one read, and returns what that probe
\* gave: a Sensor iff the byte read is 0x55, HardwareMismatch(0x55, got) for
\* another byte, InvalidSlaveAddress when the transport reports that error,
\* the I2C error otherwise.
C11_ProbeOutcome ==
    op = "init_with_channel" =>
        /\ SetAddrs(trace) = <<>>
        /\ Attempts(trace) <= 1 /\ BusReads(trace) <= 1
        /\ sensor => pc = "idle" /\ result.kind = "Ok"
        /\ pc = "idle" =>
              /\ Attempts(trace) = 1
              /\ stub[1].step = "ok" => BusReads(trace) = 1
              /\ stub[1].step = "write" => BusReads(trace) = 0
              /\ sensor <=> stub[1] = Match
              /\ stub[1] = Match => result = Ok(0)
              /\ (stub[1].step = "ok" /\ stub[1] # Match) =>
                    result = Res("HardwareMismatch", "", stub[1].data[1], 85)
              /\ (stub[1].step # "ok" /\ stub[1].err = "InvalidSlaveAddress") =>
                    result = Res("InvalidSlaveAddress", "", 0, 0)
              /\ (stub[1].step # "ok" /\ stub[1].err = "Io") => result = I2C("Io")

\* C11: the outcome of init_with_channel is that of its single HW_ID probe,
\* and no step of init_with_channel changes the address of the channel it
\* was given.
C11_SingleProbeAsGiven ==
    /\ []C11_ProbeOutcome
    /\ [][(op = "init_with_channel" /\ op' = "init_with_channel") => addr' = addr]_vars

\* C11 witness: a channel pre-set to 0x70 answered 0xFF and
\* init_with_channel returned HardwareMismatch without binding a Sensor.
C11_Witness ==
    /\ op = "init_with_channel" /\ pc = "idle"
    /\ result.kind = "HardwareMismatch" /\ result.val = 255
    /\ addr = 112 /\ ~sensor

\* The register a running operation reads: selector bytes, settle time in
\* microseconds and width in bytes, as the register table gives them.
RegisterOf(o) ==
    IF o \in {"init", "init_with_channel"} THEN [sel |-> <<0, 1>>, settle |-> 125, n |-> 1]
    ELSE IF o = "get_temp" THEN [sel |-> <<0, 4>>, settle |-> 125, n |-> 4]
    ELSE [sel |-> <<15, 16>>, settle |-> 5000, n |-> 2]

\* C12: every register read of discovery, get_temp and get_capacitance is
\* one write of the 2 selector bytes, then one delay of the register's
\* settle time, then one read of the register's width: (0x00, 0x01, 125, 1)
\* for HW_ID, (0x00, 0x04, 125, 4) for TEMP, (0x0F, 0x10, 5000, 2) for
\* TOUCH_CHANNEL.  No read comes without the write and the delay before it.
C12_WireShape ==
    \A i \in 1..Len(trace) :
        LET reg == RegisterOf(op)
            settle == Ev("delay_us", <<reg.settle>>, Ok(0), <<>>)
        IN
        /\ trace[i].ev = "write" =>
              /\ trace[i].arg = reg.sel /\ Len(trace[i].arg) = 2
              /\ trace[i].ok =>
                    /\ i < Len(trace) /\ trace[i + 1] = settle
                    /\ i + 2 <= Len(trace) => trace[i + 2].ev = "read"
        /\ trace[i].ev = "read" =>
              /\ trace[i].arg = <<reg.n>>
              /\ trace[i].ok => Len(trace[i].data) = reg.n
              /\ i >= 3
              /\ trace[i - 1] = settle
              /\ trace[i - 2] = Ev("write", reg.sel, Ok(0), <<>>)
        /\ (trace[i] = settle /\ reg.settle # 1000) =>
              i >= 2 /\ trace[i - 1].ev = "write" /\ trace[i - 1].ok

\* C12 witness: get_capacitance read TOUCH_CHANNEL once and returned.
C12_Witness ==
    /\ op = "get_capacitance" /\ pc = "idle" /\ Len(trace) = 4
    /\ trace[2].arg = <<15, 16>> /\ trace[3].arg = <<5000>>
    /\ trace[4].ev = "read" /\ trace[4].arg = <<2>> /\ trace[4].ok

\* C13 as a state predicate: get_temp and get_capacitance never call
\* set_slave_address, and every write they issue is one of the 2-byte
\* selectors [0x00, 0x04], [0x0F, 0x10].
C13_OnlySelectorsWritten ==
    op \in {"get_temp", "get_capacitance"} =>
        \A i \in 1..Len(trace) :
            /\ trace[i].ev \in {"write", "delay_us", "read"}
            /\ trace[i].ev = "write" => trace[i].arg \in {<<0, 4>>, <<15, 16>>}

\* C13: once a Sensor exists it stays, no step changes the address its
\* channel is bound to, and the only bytes written are register selectors.
C13_BoundAddressKept ==
    /\ []C13_OnlySelectorsWritten
    /\ [][sensor => sensor' /\ addr' = addr]_vars

\* C13 witness: on a Sensor bound to 0x38, get_capacitance was called after
\* other calls and the channel is still at 0x38.
C13_Witness ==
    /\ sensor /\ addr = 56 /\ op = "get_capacitance" /\ pc = "idle"
    /\ errBefore /\ prev.set /\ result.kind = "Ok"

\* The signed 32-bit integer whose big-endian two's-complement bytes are d.
BeInt32(d) ==
    LET top == IF d[1] >= 128 THEN d[1] - 256 ELSE d[1]
    IN ((top * 256 + d[2]) * 256 + d[3]) * 256 + d[4]
Abs(x) == IF x < 0 THEN -x ELSE x

\* C14 as claimed: the value get_temp returns, times 2^16, is exactly the
\* integer read.
C14_ExactQuotient ==
    (op = "get_temp" /\ pc = "idle" /\ result.kind = "Ok") =>
        result.val * Pow2(result.exp + 16) = BeInt32(trace[Len(trace)].data)

\* C14 as amended: get_temp returns the integer read, rounded to the nearest
\* value with 24 significant bits (ties to the even one), divided by 2^16;
\* the quotient is exact when the integer is below 2^24 in magnitude, the
\* sign is kept, and every 4 bytes read give Ok.
C14_NearestF32Quotient ==
    (op = "get_temp" /\ pc = "idle" /\ trace[Len(trace)].ev = "read"
        /\ trace[Len(trace)].ok) =>
        LET d == trace[Len(trace)].data
            n == BeInt32(d)
            m == result.val
            e == result.exp + 16
            err == Abs(n - m * Pow2(e))
        IN
        /\ result.kind = "Ok"
        /\ e >= 0 /\ Abs(m) < 16777216
        /\ e > 0 => Abs(m) >= 8388608
        /\ (n < 0 => m < 0) /\ (n >= 0 => m >= 0)
        /\ Abs(n) < 16777216 => e = 0 /\ m = n
        /\ 2 * err <= Pow2(e)
        /\ 2 * err = Pow2(e) => m % 2 = 0
        /\ d = <<0, 12, 128, 0>> => m = 819200 /\ result.exp = -16
        /\ d = <<255, 255, 128, 0>> => m = -32768 /\ result.exp = -16

\* C14 witness: get_temp read 0x02000003 and returned 8388609 * 2^-14.
C14_Witness ==
    /\ op = "get_temp" /\ pc = "idle" /\ result.kind = "Ok"
    /\ trace[Len(trace)].data = <<2, 0, 0, 3>>
    /\ result.val = 8388609 /\ result.exp = -14

\* C15 as a state predicate: a failed selector write or bus read delivers
\* nothing and ends its register read: what follows in the trace, if
\* anything, is the start of the caller's next cycle (the 1000 us delay of
\* get_capacitance, the set_slave_address of init), never a settle delay, a
\* read or a second write.
C15_FailureEndsRead ==
    \A i \in FailedAt(trace) :
        /\ trace[i].data = <<>>
        /\ i < Len(trace) =>
              \/ trace[i + 1].ev = "set_slave_address"
              \/ trace[i + 1] = Ev("delay_us", <<1000>>, Ok(0), <<>>)

\* The step just taken issued a bus write or read that failed.
FailedNow ==
    /\ Len(trace') = Len(trace) + 1
    /\ trace'[Len(trace')].ev \in {"write", "read"}
    /\ ~trace'[Len(trace')].ok

\* C15: a failed write or read of the register read primitive aborts it
\* with no further bus traffic (a failed write also leaves the buffer as it
\* was) and hands the transport error to the caller: get_temp returns it, get_capacitance counts
\* one failed attempt, the constructors bind no Sensor.
C15_PrimitiveAborts ==
    /\ []C15_FailureEndsRead
    /\ [][FailedNow =>
            LET e == trace'[Len(trace')].err IN
            /\ trace'[Len(trace')].ev = "write" => buff' = buff
            /\ pc' \in {"idle", "cap_loop", "set_addr"}
            /\ op = "get_temp" => pc' = "idle" /\ result' = I2C(e)
            /\ op = "get_capacitance" =>
                  pc' = "cap_loop" /\ retry_counter' = retry_counter + 1
            /\ op \in {"init", "init_with_channel"} =>
                  /\ ~sensor'
                  /\ e = "Io" => pc' = "idle" /\ result' = I2C(e)]_vars

\* C15 witness: the selector write of get_temp failed; the trace holds that
\* write alone and the buffer is still zeroed.
C15_Witness ==
    /\ op = "get_temp" /\ pc = "idle" /\ result = I2C("Io")
    /\ Len(trace) = 1 /\ trace[1].ev = "write" /\ ~trace[1].ok
    /\ buff = <<0, 0, 0, 0>>

\* C16: every attempt of get_capacitance, the first and each one after a
\* bus error or a sentinel read, is delay(1000), write([0x0F, 0x10]),
\* delay(5000), read(2 bytes): the 1000 us delay is a call of its own, the
\* first call of the attempt, and there is one per attempt.
C16_AttemptTrace ==
    op = "get_capacitance" =>
        LET pre == Ev("delay_us", <<1000>>, Ok(0), <<>>)
            settle == Ev("delay_us", <<5000>>, Ok(0), <<>>)
            pres == {i \in 1..Len(trace) : trace[i] = pre}
        IN
        /\ trace # <<>> => trace[1] = pre
        /\ Cardinality(pres) = Attempts(trace) + (IF pc = "reg_write" THEN 1 ELSE 0)
        /\ \A i \in 1..Len(trace) :
              /\ trace[i] = pre =>
                    /\ i = 1 \/ trace[i - 1].ev = "read"
                             \/ (trace[i - 1].ev = "write" /\ ~trace[i - 1].ok)
                    /\ i < Len(trace) => trace[i + 1].ev = "write"
              /\ trace[i].ev = "write" =>
                    i >= 2 /\ trace[i - 1] = pre /\ trace[i].arg = <<15, 16>>
              /\ trace[i].ev = "read" =>
                    /\ i >= 4 /\ trace[i].arg = <<2>>
                    /\ trace[i - 1] = settle
                    /\ trace[i - 2].ev = "write" /\ trace[i - 2].ok
                    /\ trace[i - 3] = pre
              /\ trace[i].ev = "delay_us" => trace[i] \in {pre, settle}

\* C16 witness: a failed write, a sentinel read and a read of 700; the
\* second and third attempts start with their own 1000 us delay.
C16_Witness ==
    /\ op = "get_capacitance" /\ pc = "idle"
    /\ stub = <<Fail("write", "Io"), Sentinel, Reading700>>
    /\ Len(trace) = 10
    /\ trace[3].arg = <<1000>> /\ trace[7].arg = <<1000>>
    /\ result = Ok(700)

\* C17: get_capacitance returns Ok(v) only straight after a successful bus
\* read, v being the big-endian value of the 2 bytes that read delivered and
\* below 0xFFFF; the first read that delivers such a value ends the call, so
\* no attempt follows it and no value comes from a failed attempt's buffer.
C17_ValueOfLastRead ==
    op = "get_capacitance" =>
        /\ \A i \in 1..Len(trace) :
              (trace[i].ev = "read" /\ trace[i].ok /\ trace[i].data # <<255, 255>>) =>
                  /\ i = Len(trace)
                  /\ pc = "idle"
                  /\ result = Ok(trace[i].data[1] * 256 + trace[i].data[2])
        /\ (pc = "idle" /\ result.kind = "Ok") =>
              LET last == trace[Len(trace)] IN
              /\ last.ev = "read" /\ last.ok /\ Len(last.data) = 2
              /\ result.val = last.data[1] * 256 + last.data[2]
              /\ result.val < 65535
              /\ buff = last.data

\* C17 witness: after a failed read and a sentinel read, 0xFFFE was read and
\* returned.
C17_Witness ==
    /\ op = "get_capacitance" /\ pc = "idle"
    /\ stub = <<Fail("read", "Io"), Sentinel, Data(<<255, 254>>)>>
    /\ result = Ok(65534)

C19_InitErrors ==
    (op = "init" /\ pc = "idle") =>
        /\ result.kind \in {"Ok", "HwNotFound", "I2C"}
        /\ sensor <=> result.kind = "Ok"
        /\ result.kind = "HwNotFound" =>
              /\ Len(SetAddrs(trace)) = 4
              /\ \A i \in 1..4 : SetAddrs(trace)[i].ok /\ SetAddrs(trace)[i].arg = <<53 + i>>
              /\ Attempts(trace) = 4
              /\ \A i \in 1..Len(trace) : trace[i].data # <<85>>

\* C19 witness: set_slave_address(0x37) failed with the transport's
\* InvalidSlaveAddress error and init returned it wrapped as the I2C error.
C19_Witness ==
    /\ op = "init" /\ pc = "idle"
    /\ result = I2C("InvalidSlaveAddress")
    /\ trace[Len(trace)].ev = "set_slave_address" /\ trace[Len(trace)].arg = <<55>>

====
